---- MODULE Spec2Model ----
(***************************************************************************)
(* Model of ld.py: fit_law (passband integration of a stellar model grid   *)
(* and least-squares fits of four limb darkening laws) and the four law    *)
(* functions linear_ld, quadratic_ld, threeparam_nonlin_ld and             *)
(* fourparam_nonlin_ld.                                                    *)
(*                                                                         *)
(* Floating point values are modelled as exact rationals <<n, d>> with     *)
(* d >= 0 in lowest terms; d = 0 encodes the IEEE special values:          *)
(* <<0,0>> is NaN, <<1,0>> is +inf and <<-1,0>> is -inf.                   *)
(***************************************************************************)
EXTENDS Integers, Sequences, FiniteSets, TLC

(***************************************************************************)
(* Arithmetic                                                              *)
(***************************************************************************)
Abs(n) == IF n < 0 THEN -n ELSE n

Sign(n) == IF n < 0 THEN -1 ELSE IF n > 0 THEN 1 ELSE 0

RECURSIVE GCD(_, _)
GCD(a, b) == IF b = 0 THEN a ELSE GCD(b, a % b)

Norm(n, d) ==
    IF d = 0 THEN <<Sign(n), 0>>
    ELSE LET g == GCD(Abs(n), Abs(d))
         IN  <<Sign(d) * (n \div g), Abs(d) \div g>>

R(n) == <<n, 1>>

Q(n, d) == Norm(n, d)

NaN == <<0, 0>>

IsNaN(a) == a = NaN

IsInf(a) == a[2] = 0 /\ a[1] # 0

IsFinite(a) == a[2] > 0

Add(a, b) ==
    IF IsNaN(a) \/ IsNaN(b) THEN NaN
    ELSE IF IsInf(a) THEN (IF IsInf(b) /\ b # a THEN NaN ELSE a)
    ELSE IF IsInf(b) THEN b
    ELSE LET g == GCD(a[2], b[2])
         IN  Norm(a[1] * (b[2] \div g) + b[1] * (a[2] \div g),
                  (a[2] \div g) * b[2])

Neg(a) == <<-a[1], a[2]>>

Sub(a, b) == Add(a, Neg(b))

\* Common factors are cancelled crosswise before the products are formed.
Mul(a, b) ==
    IF ~IsFinite(a) \/ ~IsFinite(b) THEN Norm(a[1] * b[1], 0)
    ELSE LET g1 == GCD(Abs(a[1]), b[2])
             g2 == GCD(Abs(b[1]), a[2])
         IN  Norm((a[1] \div g1) * (b[1] \div g2),
                  (a[2] \div g2) * (b[2] \div g1))

\* a / b with numpy's semantics: x/0 is +-inf, 0/0 is NaN.
Div(a, b) ==
    IF IsNaN(a) \/ IsNaN(b) THEN NaN
    ELSE IF b[1] = 0 THEN Norm(a[1], 0)
    ELSE Mul(a, <<Sign(b[1]) * b[2], Abs(b[1])>>)

\* Comparisons are False when either side is NaN.
Leq(a, b) == ~IsNaN(a) /\ ~IsNaN(b) /\ (a = b \/ a[1] * b[2] < b[1] * a[2])

Less(a, b) == ~IsNaN(a) /\ ~IsNaN(b) /\ a # b /\ a[1] * b[2] < b[1] * a[2]

Geq(a, b) == Leq(b, a)

Greater(a, b) == Less(b, a)

RECURSIVE SumSeq(_)
SumSeq(s) == IF s = <<>> THEN R(0) ELSE Add(Head(s), SumSeq(Tail(s)))

\* numpy's max()/min() of a non-empty array: NaN propagates.
RECURSIVE MaxSeq(_)
MaxSeq(s) ==
    IF Len(s) = 1 THEN s[1]
    ELSE LET m == MaxSeq(Tail(s))
         IN  IF IsNaN(s[1]) \/ IsNaN(m) THEN NaN
             ELSE IF Less(s[1], m) THEN m ELSE s[1]

RECURSIVE MinSeq(_)
MinSeq(s) ==
    IF Len(s) = 1 THEN s[1]
    ELSE LET m == MinSeq(Tail(s))
         IN  IF IsNaN(s[1]) \/ IsNaN(m) THEN NaN
             ELSE IF Less(m, s[1]) THEN m ELSE s[1]

\* Resolution of the modelled floating point square root.
SqrtScale == 20

ISqrt(k) == CHOOSE r \in 0..k : r * r <= k /\ (r + 1) * (r + 1) > k

\* x**(1./2.): NaN for a negative or NaN argument.
Sqrt(a) ==
    IF IsNaN(a) \/ a[1] < 0 THEN NaN
    ELSE IF IsInf(a) THEN a
    ELSE Norm(ISqrt((a[1] * SqrtScale * SqrtScale) \div a[2]), SqrtScale)

\* x**(3./2.)
Pow32(a) == Mul(a, Sqrt(a))

\* x**2.
Sq(a) == Mul(a, a)

(***************************************************************************)
(* Array helpers                                                           *)
(***************************************************************************)
\* Subsequence of s at the (1-based) positions listed in ix.
Take(s, ix) == [k \in 1..Len(ix) |-> s[ix[k]]]

\* Positions of s, ascending, whose element satisfies the boolean array keep.
RECURSIVE Where(_, _)
Where(keep, k) ==
    IF k > Len(keep) THEN <<>>
    ELSE IF keep[k] THEN <<k>> \o Where(keep, k + 1)
    ELSE Where(keep, k + 1)

\* np.argsort of distinct values: positions in ascending order of value.
RECURSIVE ArgSortFrom(_, _)
ArgSortFrom(ws, left) ==
    IF left = {} THEN <<>>
    ELSE LET k == CHOOSE j \in left : \A m \in left : Leq(ws[j], ws[m])
         IN  <<k>> \o ArgSortFrom(ws, left \ {k})

argsort(ws) == ArgSortFrom(ws, 1..Len(ws))

\* np.interp( x, xp, fp ) for one x, xp ascending and non-empty: linear
\* interpolation with the edge values held outside [xp[0], xp[-1]].
interp1(x, xp, fp) ==
    IF Len(xp) = 1 \/ Leq(x, xp[1]) THEN fp[1]
    ELSE IF Geq(x, xp[Len(xp)]) THEN fp[Len(fp)]
    ELSE LET j == CHOOSE k \in 1..(Len(xp) - 1) :
                      Leq(xp[k], x) /\ Less(x, xp[k + 1])
             slope == Div(Sub(fp[j + 1], fp[j]), Sub(xp[j + 1], xp[j]))
         IN  Add(Mul(slope, Sub(x, xp[j])), fp[j])

interp(xs, xp, fp) == [k \in 1..Len(xs) |-> interp1(xs[k], xp, fp)]

\* np.linspace( lo, hi, n )
linspace(lo, hi, n) ==
    [k \in 1..n |-> Add(lo, Div(Mul(R(k - 1), Sub(hi, lo)), R(n - 1)))]

\* One three-point panel of Simpson's rule on unequal spacings, at the
\* 1-based position k: points k, k+1, k+2.
SimpsPanel(y, x, k) ==
    LET h0 == Sub(x[k + 1], x[k])
        h1 == Sub(x[k + 2], x[k + 1])
        hsum == Add(h0, h1)
        hprod == Mul(h0, h1)
        h0divh1 == Div(h0, h1)
    IN  Mul(Div(hsum, R(6)),
            Add(Add(Mul(y[k], Sub(R(2), Div(R(1), h0divh1))),
                    Mul(y[k + 1], Div(Mul(hsum, hsum), hprod))),
                Mul(y[k + 2], Sub(R(2), h0divh1))))

\* Sum of the panels starting at the 1-based positions first, first+2, ...
\* up to last.
RECURSIVE BasicSimps(_, _, _, _)
BasicSimps(y, x, first, last) ==
    IF first > last THEN R(0)
    ELSE Add(SimpsPanel(y, x, first), BasicSimps(y, x, first + 2, last))

Trapezium(y, x, k) ==
    Mul(Mul(Q(1, 2), Sub(x[k + 1], x[k])), Add(y[k], y[k + 1]))

\* scipy.integrate.simps( y, x=x ) with its default even='avg': for an even
\* number of samples, the mean of Simpson on the first N-1 samples plus a
\* trapezium on the last interval and of a trapezium on the first interval
\* plus Simpson on the last N-1 samples.
simps(y, x) ==
    LET N == Len(y)
    IN  IF N % 2 = 1 THEN BasicSimps(y, x, 1, N - 2)
        ELSE LET val == Add(Trapezium(y, x, N - 1), Trapezium(y, x, 1))
                 res == Add(BasicSimps(y, x, 1, N - 3),
                            BasicSimps(y, x, 2, N - 2))
             IN  Add(Div(res, R(2)), Div(val, R(2)))

(***************************************************************************)
(* The four limb darkening laws.  Each returns (name, phi): with           *)
(* coeffs = None phi is the basis matrix, one row per mu; otherwise phi is *)
(* the law evaluated at every mu.  A Python exception raised inside the    *)
(* function is returned in the field raised.                               *)
(***************************************************************************)
None == <<>>

Returns(name, phi) == [name |-> name, phi |-> phi, raised |-> "none"]

Raises(name, e) == [name |-> name, phi |-> <<>>, raised |-> e]

\* 1.0 - x
OneMinus(x) == Sub(R(1), x)

linear_ld(mus, coeffs) ==
    IF coeffs = None
    THEN Returns("linear", [k \in 1..Len(mus) |-> <<Neg(OneMinus(mus[k]))>>])
    ELSE IF Len(coeffs) < 2 THEN Raises("linear", "IndexError")
    ELSE Returns("linear",
            [k \in 1..Len(mus) |->
                Sub(R(1), Mul(coeffs[2], OneMinus(mus[k])))])

quadratic_ld(mus, coeffs) ==
    IF coeffs = None
    THEN Returns("quadratic",
            [k \in 1..Len(mus) |->
                <<Neg(OneMinus(mus[k])), Neg(Sq(OneMinus(mus[k])))>>])
    ELSE IF Len(coeffs) < 2 THEN Raises("quadratic", "IndexError")
    ELSE Returns("quadratic",
            [k \in 1..Len(mus) |->
                Sub(Sub(R(1), Mul(coeffs[1], OneMinus(mus[k]))),
                    Mul(coeffs[2], Sq(OneMinus(mus[k]))))])

threeparam_nonlin_ld(mus, coeffs) ==
    IF coeffs = None
    THEN Returns("threeparam_nonlin",
            [k \in 1..Len(mus) |->
                <<Neg(OneMinus(mus[k])),
                  Neg(OneMinus(Pow32(mus[k]))),
                  Neg(OneMinus(Sq(mus[k])))>>])
    ELSE IF Len(coeffs) < 3 THEN Raises("threeparam_nonlin", "IndexError")
    ELSE Returns("threeparam_nonlin",
            [k \in 1..Len(mus) |->
                Sub(Sub(Sub(R(1), Mul(coeffs[1], OneMinus(mus[k]))),
                        Mul(coeffs[2], OneMinus(Pow32(mus[k])))),
                    Mul(coeffs[3], OneMinus(Sq(mus[k]))))])

fourparam_nonlin_ld(mus, coeffs) ==
    IF coeffs = None
    THEN Returns("fourparam_nonlin",
            [k \in 1..Len(mus) |->
                <<Neg(OneMinus(Sqrt(mus[k]))),
                  Neg(OneMinus(mus[k])),
                  Neg(OneMinus(Pow32(mus[k]))),
                  Neg(OneMinus(Sq(mus[k])))>>])
    ELSE IF Len(coeffs) < 4 THEN Raises("fourparam_nonlin", "IndexError")
    ELSE Returns("fourparam_nonlin",
            [k \in 1..Len(mus) |->
                Sub(Sub(Sub(Sub(R(1),
                                Mul(coeffs[1], OneMinus(Sqrt(mus[k])))),
                            Mul(coeffs[2], OneMinus(mus[k]))),
                        Mul(coeffs[3], OneMinus(Pow32(mus[k])))),
                    Mul(coeffs[4], OneMinus(Sq(mus[k]))))])

\* laws = [ fourparam_nonlin_ld, threeparam_nonlin_ld, quadratic_ld, linear_ld ]
laws == <<"fourparam_nonlin", "threeparam_nonlin", "quadratic", "linear">>

\* laws[i]( mus, coeffs )
CallLaw(law, mus, coeffs) ==
    CASE law = "fourparam_nonlin" -> fourparam_nonlin_ld(mus, coeffs)
      [] law = "threeparam_nonlin" -> threeparam_nonlin_ld(mus, coeffs)
      [] law = "quadratic" -> quadratic_ld(mus, coeffs)
      [] law = "linear" -> linear_ld(mus, coeffs)

\* np.dot( phi, coeffs ) for one row of phi
Dot(row, coeffs) == SumSeq([k \in 1..Len(row) |-> Mul(row[k], coeffs[k])])

(***************************************************************************)
(* fit_law.  A frame f holds the local variables of one call (the          *)
(* arguments are rebound by the code as it goes), its position pc and the  *)
(* exception it raised, if any.  Each operator below is one block of the   *)
(* function body, from frame to frame.  plot_fits is False throughout.     *)
(***************************************************************************)
\* nf = int( 1e6 ), reduced to keep the resampled axis enumerable.
nf == 5

\* dw = 1e-2
dw == Q(1, 100)

raise(f, e) == [f EXCEPT !.pc = "raised", !.raised = e]

Column(m, i) == [k \in 1..Len(m) |-> m[k][i]]

Ncols(m) == IF m = <<>> THEN 0 ELSE Len(m[1])

\* Lines 17-25: sort the passband by wavelength and pad it with a zero of
\* sensitivity dw outside each end.
\* Indexing None raises TypeError; indexing a sensitivity array shorter than
\* the wavelength array with ixs raises IndexError.
Padded(f) ==
    LET ixs == argsort(f.passband_wav_nm)
        w == Take(f.passband_wav_nm, ixs)
        s == Take(f.passband_sensitivity, ixs)
        wl == Sub(MinSeq(w), dw)
        wu == Add(MaxSeq(w), dw)
    IN  [f EXCEPT !.passband_wav_nm = <<wl>> \o w \o <<wu>>,
                  !.passband_sensitivity = <<R(0)>> \o s \o <<R(0)>>,
                  !.pc = "restrict"]

\* Mutant: the two passband arrays are required to have one length.
sort_pad_checked(f) ==
    IF f.passband_sensitivity = None THEN raise(f, "TypeError")
    ELSE IF Len(f.passband_sensitivity) # Len(f.passband_wav_nm)
    THEN raise(f, "IndexError")
    ELSE Padded(f)

\* Mutant: the peak is rescaled right after the padding.
sort_pad_then_rescale(f) ==
    IF f.passband_sensitivity = None THEN raise(f, "TypeError")
    ELSE IF Len(f.passband_sensitivity) < Len(f.passband_wav_nm)
    THEN raise(f, "IndexError")
    ELSE [Padded(f) EXCEPT !.pc = "rescale"]

sort_pad(f) ==
    IF f.passband_sensitivity = None THEN raise(f, "TypeError")
    ELSE IF Len(f.passband_sensitivity) < Len(f.passband_wav_nm)
    THEN raise(f, "IndexError")
    ELSE Padded(f)

\* Lines 27-35: keep the grid rows with wavl <= wavelength <= wavu.
\* Mutant: every grid row is kept.
restrict_all(f) ==
    LET dwav == Sub(f.cutoff_wav_nm, f.cuton_wav_nm)
    IN  [f EXCEPT !.wavl = Sub(f.cuton_wav_nm, Mul(Q(1, 10), dwav)),
                  !.wavu = Add(f.cutoff_wav_nm, Mul(Q(1, 10), dwav)),
                  !.pc = "resample"]

restrict(f) ==
    LET dwav == Sub(f.cutoff_wav_nm, f.cuton_wav_nm)
        lo == Sub(f.cuton_wav_nm, Mul(Q(1, 10), dwav))
        hi == Add(f.cutoff_wav_nm, Mul(Q(1, 10), dwav))
        ixs == Where([k \in 1..Len(f.grid_wav_nm) |->
                        Geq(f.grid_wav_nm[k], lo) /\ Leq(f.grid_wav_nm[k], hi)], 1)
    IN  [f EXCEPT !.wavl = lo, !.wavu = hi,
                  !.grid_wav_nm = Take(f.grid_wav_nm, ixs),
                  !.grid_intensities = Take(f.grid_intensities, ixs),
                  !.pc = "resample"]

\* Lines 37-46: interpolate every mu column onto nf points spanning
\* [wavl, wavu].  np.interp raises ValueError on an empty grid; reading
\* column i of a grid with fewer columns than mu values raises IndexError.
Resampled(f) ==
    LET xf == linspace(f.wavl, f.wavu, nf)
        nmu == Len(f.grid_mu)
        col == [i \in 1..nmu |->
                   interp(xf, f.grid_wav_nm, Column(f.grid_intensities, i))]
    IN  [f EXCEPT !.grid_wav_nm = xf,
                  !.grid_intensities =
                      [k \in 1..nf |-> [i \in 1..nmu |-> col[i][k]]],
                  !.pc = "rescale"]

\* Mutant: interpolation is refused on fewer than two grid rows.
resample_needs_two(f) ==
    IF Len(f.grid_mu) > 0 /\ Len(f.grid_wav_nm) < 2 THEN raise(f, "ValueError")
    ELSE IF Len(f.grid_mu) > Ncols(f.grid_intensities)
    THEN raise(f, "IndexError")
    ELSE Resampled(f)

resample(f) ==
    IF Len(f.grid_mu) > 0 /\ f.grid_wav_nm = <<>> THEN raise(f, "ValueError")
    ELSE IF Len(f.grid_mu) > Ncols(f.grid_intensities)
    THEN raise(f, "IndexError")
    ELSE Resampled(f)

\* Lines 48-57: boxcar substitution, second sort, division by the peak.
\* Mutant: the division by the peak is left out.
rescale_unscaled(f) ==
    LET ixs == argsort(f.passband_wav_nm)
    IN  [f EXCEPT !.passband_wav_nm = Take(f.passband_wav_nm, ixs),
                  !.passband_sensitivity = Take(f.passband_sensitivity, ixs),
                  !.pc = "mask_interp"]

rescale(f) ==
    LET s0 == IF f.passband_sensitivity = None
              THEN [k \in 1..Len(f.passband_wav_nm) |-> R(1)]
              ELSE f.passband_sensitivity
        ixs == argsort(f.passband_wav_nm)
        s1 == Take(s0, ixs)
        peak == MaxSeq(s1)
    IN  [f EXCEPT !.passband_wav_nm = Take(f.passband_wav_nm, ixs),
                  !.passband_sensitivity = [k \in 1..Len(s1) |-> Div(s1[k], peak)],
                  !.pc = "mask_interp"]

\* Lines 75-83: the [cuton, cutoff] mask and the passband interpolated onto
\* the grid axis.
mask_interp(f) ==
    [f EXCEPT !.mask = [k \in 1..Len(f.grid_wav_nm) |->
                          IF Geq(f.grid_wav_nm[k], f.cuton_wav_nm)
                             /\ Leq(f.grid_wav_nm[k], f.cutoff_wav_nm)
                          THEN R(1) ELSE R(0)],
              !.interp_sensitivity =
                  interp(f.grid_wav_nm, f.passband_wav_nm, f.passband_sensitivity),
              !.pc = "normfactor"]

\* wavelength * mask * interp_sensitivity
Weight(f) ==
    [k \in 1..Len(f.grid_wav_nm) |->
        Mul(Mul(f.grid_wav_nm[k], f.mask[k]), f.interp_sensitivity[k])]

\* Lines 92-94: the positions of positive sensitivity, with one position
\* added on each side, clipped to the axis.
NormIxs(f) ==
    LET nwav == Len(f.grid_wav_nm)
        pos == Where([k \in 1..nwav |-> Greater(f.interp_sensitivity[k], R(0))], 1)
        ext == <<pos[1] - 1>> \o pos \o <<pos[Len(pos)] + 1>>
    IN  Take(ext, Where([k \in 1..Len(ext) |-> ext[k] >= 1 /\ ext[k] <= nwav], 1))

\* Lines 85-95: the normalisation integral.  ixs[0] raises IndexError when
\* the sensitivity is positive nowhere on the axis.
norm_integral(f) ==
    IF \A k \in 1..Len(f.grid_wav_nm) : ~Greater(f.interp_sensitivity[k], R(0))
    THEN raise(f, "IndexError")
    ELSE LET ixs == NormIxs(f)
         IN  [f EXCEPT !.normfactor =
                           simps(Take(Weight(f), ixs), Take(f.grid_wav_nm, ixs)),
                       !.pc = "integrate"]

\* Lines 97-104: the passband integral of every mu column over the whole
\* axis, divided by normfactor.
integrate(f) ==
    LET y == Weight(f)
        integral(i) ==
            simps([k \in 1..Len(y) |-> Mul(y[k], f.grid_intensities[k][i])],
                  f.grid_wav_nm)
    IN  [f EXCEPT !.integrated_intensities =
                      [i \in 1..Len(f.grid_mu) |-> Div(integral(i), f.normfactor)],
                  !.pc = "normalise"]

\* Line 105: integrated_intensities /= integrated_intensities[0]
\* Mutant: the division is by the last value, not the first.
normalise_by_last(f) ==
    [f EXCEPT !.integrated_intensities =
                  [i \in 1..Len(@) |-> Div(@[i], @[Len(@)])],
              !.i = 1,
              !.pc = "fit"]

normalise(f) ==
    [f EXCEPT !.integrated_intensities =
                  [i \in 1..Len(@) |-> Div(@[i], @[1])],
              !.i = 1,
              !.pc = "fit"]

\* Lines 119-122: the rows of grid_mu a law is fitted to.
\* Mutant: one threshold, 0.05, for all four laws.
Admissible_one_threshold(name, grid_mu) ==
    Where([k \in 1..Len(grid_mu) |-> Geq(grid_mu[k], Q(1, 20))], 1)

Admissible(name, grid_mu) ==
    IF name = "fourparam_nonlin"
    THEN Where([k \in 1..Len(grid_mu) |-> Geq(grid_mu[k], R(0))], 1)
    ELSE Where([k \in 1..Len(grid_mu) |-> Geq(grid_mu[k], Q(1, 20))], 1)

\* np.linalg.lstsq( A, b )[0]: the least-squares solution is kept symbolic,
\* as the system it solves and the number of coefficients it has.
lstsq(A, b, n) == [A |-> A, b |-> b, size |-> n]

\* Lines 116-123 for the law at position i of laws.
LawFit(i, grid_mu, integrated_intensities) ==
    LET r == CallLaw(laws[i], grid_mu, None)
        ixs == Admissible(r.name, grid_mu)
        target == [k \in 1..Len(integrated_intensities) |->
                      Sub(integrated_intensities[k], R(1))]
    IN  [name |-> r.name,
         ixs |-> ixs,
         coeffs |-> lstsq(Take(r.phi, ixs), Take(target, ixs), Len(r.phi[1]))]

\* A system LAPACK is certain to solve: at least one row, every entry finite.
WellPosed(c) ==
    /\ c.A # <<>>
    /\ \A k \in 1..Len(c.A) :
          IsFinite(c.b[k]) /\ \A j \in 1..Len(c.A[k]) : IsFinite(c.A[k][j])

\* Lines 115-124, one iteration of the loop over the laws.  On a system
\* that is empty or holds a non-finite entry the solver either returns or
\* raises LinAlgError, depending on the LAPACK build: outcome chooses.
Stored(f, r) ==
    [f EXCEPT !.ld_coeff_fits = (r.name :> r.coeffs) @@ @,
              !.i = @ + 1,
              !.pc = IF f.i = Len(laws) THEN "return" ELSE "fit"]

\* Mutant: a system with fewer rows than coefficients is refused.
fit_checked(f, outcome) ==
    LET r == LawFit(f.i, f.grid_mu, f.integrated_intensities)
    IN  IF Len(r.coeffs.A) < r.coeffs.size
        THEN raise(f, "UnderdeterminedFitError")
        ELSE IF ~WellPosed(r.coeffs) /\ outcome = "LinAlgError"
        THEN raise(f, "LinAlgError")
        ELSE Stored(f, r)

fit(f, outcome) ==
    LET r == LawFit(f.i, f.grid_mu, f.integrated_intensities)
    IN  IF ~WellPosed(r.coeffs) /\ outcome = "LinAlgError"
        THEN raise(f, "LinAlgError")
        ELSE Stored(f, r)

\* Line 132
return(f) == [f EXCEPT !.pc = "done"]

SolverOutcomes == {"returns", "LinAlgError"}

\* The block at f.pc.
step(f, outcome) ==
    CASE f.pc = "sort_pad" -> sort_pad(f)
      [] f.pc = "restrict" -> restrict(f)
      [] f.pc = "resample" -> resample(f)
      [] f.pc = "rescale" -> rescale(f)
      [] f.pc = "mask_interp" -> mask_interp(f)
      [] f.pc = "normfactor" -> norm_integral(f)
      [] f.pc = "integrate" -> integrate(f)
      [] f.pc = "normalise" -> normalise(f)
      [] f.pc = "fit" -> fit(f, outcome)
      [] f.pc = "return" -> return(f)
      [] OTHER -> f

\* The frame on entry to fit_law with the arguments a.
Frame(a) ==
    [pc |-> "sort_pad", raised |-> "none",
     grid_mu |-> a.grid_mu,
     grid_wav_nm |-> a.grid_wav_nm,
     grid_intensities |-> a.grid_intensities,
     passband_wav_nm |-> a.passband_wav_nm,
     passband_sensitivity |-> a.passband_sensitivity,
     cuton_wav_nm |-> a.cuton_wav_nm,
     cutoff_wav_nm |-> a.cutoff_wav_nm,
     wavl |-> <<>>, wavu |-> <<>>,
     mask |-> <<>>, interp_sensitivity |-> <<>>,
     normfactor |-> <<>>,
     integrated_intensities |-> <<>>,
     i |-> 0,
     ld_coeff_fits |-> <<>>]

\* The frame a call with the arguments a is in when it reaches the law
\* fitter, or has raised.
RECURSIVE RunFrom(_)
RunFrom(f) ==
    IF f.pc \in {"fit", "return", "done", "raised"} THEN f
    ELSE RunFrom(step(f, "returns"))

Integrated(a) == RunFrom(Frame(a))

(***************************************************************************)
(* Arguments of the modelled calls                                         *)
(***************************************************************************)
RSeq(s) == [k \in 1..Len(s) |-> R(s[k])]

\* grid_mu
MuGrids ==
    { <<R(0), Q(1, 20), Q(1, 2), R(1)>>,
      <<Q(1, 20), Q(1, 2), R(1)>>,
      <<Q(-1, 10), R(0), R(1)>>,
      <<Q(1, 2), R(1)>>,
      <<R(0), Q(1, 25)>> }

\* cuton_wav_nm, cutoff_wav_nm
Windows ==
    { [cuton |-> 100, cutoff |-> 200], [cuton |-> 100, cutoff |-> 300] }

\* grid_wav_nm, ascending
GridWavs ==
    { <<50, 90, 150, 210, 250>>, <<90, 210>>, <<50, 150, 250>>, <<50, 250>> }

\* The spectrum of the grid: the intensity level at each wavelength.
Spectra == {"flat", "ramp", "gap"}

Level(spectrum, w) ==
    CASE spectrum = "flat" -> 1
      [] spectrum = "ramp" -> ((w \div 10) % 4) + 1
      [] spectrum = "gap" -> IF w >= 90 /\ w <= 210 THEN 0 ELSE 1

\* The limb profile of the grid: the factor of each mu column.
Profiles == {"limb0", "darkened"}

Factor(profile, c) == IF profile = "limb0" THEN c - 1 ELSE c

\* passband_wav_nm and passband_sensitivity (None: not given)
Passbands ==
    { [wav |-> <<100, 200>>, sens |-> None],
      [wav |-> <<100, 200>>, sens |-> RSeq(<<1, 1>>)],
      [wav |-> <<200, 100, 150>>, sens |-> RSeq(<<2, 4, 1>>)],
      [wav |-> <<100, 150, 200>>, sens |-> RSeq(<<1, 0, 1>>)],
      [wav |-> <<100, 200>>, sens |-> RSeq(<<0, 0>>)],
      [wav |-> <<210, 220>>, sens |-> RSeq(<<3, 3>>)],
      [wav |-> <<100, 200>>, sens |-> RSeq(<<1, 1, 5>>)],
      [wav |-> <<100, 200>>, sens |-> RSeq(<<1>>)] }

\* Columns of grid_intensities minus len( grid_mu ).
ColumnExcess == {-1, 0, 1}

MkArgs(mu, win, gw, spectrum, profile, excess, pb) ==
    [grid_mu |-> mu,
     grid_wav_nm |-> RSeq(gw),
     grid_intensities |->
         [k \in 1..Len(gw) |->
             [c \in 1..(Len(mu) + excess) |->
                 R(Level(spectrum, gw[k]) * Factor(profile, c))]],
     passband_wav_nm |-> RSeq(pb.wav),
     passband_sensitivity |-> pb.sens,
     cuton_wav_nm |-> R(win.cuton),
     cutoff_wav_nm |-> R(win.cutoff)]

\* The calls of fit_law that are modelled.  Grids whose column count
\* differs from len( grid_mu ) are taken with the flat spectrum only.
Calls ==
    { MkArgs(c[1], c[2], c[3], c[4], c[5], c[6], c[7]) :
        c \in { d \in MuGrids \X Windows \X GridWavs \X Spectra \X Profiles
                      \X ColumnExcess \X Passbands :
                  d[6] # 0 => (d[4] = "flat" /\ d[5] = "darkened") } }

(***************************************************************************)
(* State                                                                   *)
(***************************************************************************)
VARIABLES
    arg,                    \* the arguments fit_law was called with
    pc, raised,             \* position in fit_law, exception raised
    grid_mu, grid_wav_nm, grid_intensities,
    passband_wav_nm, passband_sensitivity,
    cuton_wav_nm, cutoff_wav_nm,
    wavl, wavu, mask, interp_sensitivity, normfactor,
    integrated_intensities, i, ld_coeff_fits,
    executed,               \* the blocks of fit_law executed so far, in order
    fitted_rows,            \* the rows of grid_mu each fitted law was solved on
    law_call, law_ret       \* a call of a law function and what it returned

vars ==
    <<arg, pc, raised, grid_mu, grid_wav_nm, grid_intensities,
      passband_wav_nm, passband_sensitivity, cuton_wav_nm, cutoff_wav_nm,
      wavl, wavu, mask, interp_sensitivity, normfactor,
      integrated_intensities, i, ld_coeff_fits, executed, fitted_rows,
      law_call, law_ret>>

\* The local variables of the running call, as a frame.
Locals ==
    [pc |-> pc, raised |-> raised,
     grid_mu |-> grid_mu,
     grid_wav_nm |-> grid_wav_nm,
     grid_intensities |-> grid_intensities,
     passband_wav_nm |-> passband_wav_nm,
     passband_sensitivity |-> passband_sensitivity,
     cuton_wav_nm |-> cuton_wav_nm,
     cutoff_wav_nm |-> cutoff_wav_nm,
     wavl |-> wavl, wavu |-> wavu,
     mask |-> mask, interp_sensitivity |-> interp_sensitivity,
     normfactor |-> normfactor,
     integrated_intensities |-> integrated_intensities,
     i |-> i,
     ld_coeff_fits |-> ld_coeff_fits]

\* The frame f becomes the local variables.
Assign(f) ==
    /\ pc' = f.pc
    /\ raised' = f.raised
    /\ grid_mu' = f.grid_mu
    /\ grid_wav_nm' = f.grid_wav_nm
    /\ grid_intensities' = f.grid_intensities
    /\ passband_wav_nm' = f.passband_wav_nm
    /\ passband_sensitivity' = f.passband_sensitivity
    /\ cuton_wav_nm' = f.cuton_wav_nm
    /\ cutoff_wav_nm' = f.cutoff_wav_nm
    /\ wavl' = f.wavl
    /\ wavu' = f.wavu
    /\ mask' = f.mask
    /\ interp_sensitivity' = f.interp_sensitivity
    /\ normfactor' = f.normfactor
    /\ integrated_intensities' = f.integrated_intensities
    /\ i' = f.i
    /\ ld_coeff_fits' = f.ld_coeff_fits

\* The local variables on entry are those of the frame f.
Entered(f) ==
    /\ pc = f.pc
    /\ raised = f.raised
    /\ grid_mu = f.grid_mu
    /\ grid_wav_nm = f.grid_wav_nm
    /\ grid_intensities = f.grid_intensities
    /\ passband_wav_nm = f.passband_wav_nm
    /\ passband_sensitivity = f.passband_sensitivity
    /\ cuton_wav_nm = f.cuton_wav_nm
    /\ cutoff_wav_nm = f.cutoff_wav_nm
    /\ wavl = f.wavl
    /\ wavu = f.wavu
    /\ mask = f.mask
    /\ interp_sensitivity = f.interp_sensitivity
    /\ normfactor = f.normfactor
    /\ integrated_intensities = f.integrated_intensities
    /\ i = f.i
    /\ ld_coeff_fits = f.ld_coeff_fits

\* One block of fit_law runs.
Run(f) ==
    /\ Assign(f)
    /\ executed' = Append(executed, pc)
    /\ UNCHANGED <<arg, law_call, law_ret>>

\* A block other than the fit of a law runs.
RunBlock(f) == Run(f) /\ UNCHANGED fitted_rows

(***************************************************************************)
(* Calls of the law functions on their own                                 *)
(***************************************************************************)
\* The coefficient values and the vectors of 1 to 4 of them.
CoeffValues == {Q(1, 2), Q(-1, 4)}

CoeffVectors == UNION { [1..n -> CoeffValues] : n \in 1..Len(laws) }

LawCalls ==
    [law : {laws[k] : k \in 1..Len(laws)},
     mus : MuGrids,
     coeffs : {None} \cup CoeffVectors,
     state : {"called"}]

NoCall == [law |-> "none", mus |-> <<>>, coeffs |-> None, state |-> "none"]

\* fit_law is called; no law function is called on its own.
Init ==
    /\ arg \in Calls
    /\ Entered(Frame(arg))
    /\ executed = <<>>
    /\ fitted_rows = <<>>
    /\ law_call = NoCall
    /\ law_ret = Raises("none", "none")

SortPad == pc = "sort_pad" /\ RunBlock(sort_pad(Locals))

Restrict == pc = "restrict" /\ RunBlock(restrict(Locals))

Resample == pc = "resample" /\ RunBlock(resample(Locals))

Rescale == pc = "rescale" /\ RunBlock(rescale(Locals))

MaskInterp == pc = "mask_interp" /\ RunBlock(mask_interp(Locals))

NormIntegral == pc = "normfactor" /\ RunBlock(norm_integral(Locals))

Integrate == pc = "integrate" /\ RunBlock(integrate(Locals))

Normalise == pc = "normalise" /\ RunBlock(normalise(Locals))

Fit ==
    /\ pc = "fit"
    /\ \E outcome \in SolverOutcomes :
          LET f == fit(Locals, outcome)
              r == LawFit(i, grid_mu, integrated_intensities)
          IN  /\ Run(f)
              /\ fitted_rows' = IF f.pc = "raised" THEN fitted_rows
                                ELSE (r.name :> r.ixs) @@ fitted_rows

Return == pc = "return" /\ RunBlock(return(Locals))

Next ==
    \/ SortPad
    \/ Restrict
    \/ Resample
    \/ Rescale
    \/ MaskInterp
    \/ NormIntegral
    \/ Integrate
    \/ Normalise
    \/ Fit
    \/ Return

Spec == Init /\ [][Next]_vars

\* A law function is called, with or without coefficients; fit_law is not.
IdleCall == CHOOSE a \in Calls : TRUE

InitLaw ==
    /\ arg = IdleCall
    /\ Entered([Frame(arg) EXCEPT !.pc = "idle"])
    /\ executed = <<>>
    /\ fitted_rows = <<>>
    /\ law_call \in LawCalls
    /\ law_ret = Raises("none", "none")

LawReturns ==
    /\ law_ret' = CallLaw(law_call.law, law_call.mus, law_call.coeffs)
    /\ law_call' = [law_call EXCEPT !.state = "returned"]
    /\ UNCHANGED <<arg, pc, raised, grid_mu, grid_wav_nm, grid_intensities,
                   passband_wav_nm, passband_sensitivity, cuton_wav_nm,
                   cutoff_wav_nm, wavl, wavu, mask, interp_sensitivity,
                   normfactor, integrated_intensities, i, ld_coeff_fits,
                   executed, fitted_rows>>

\* coeffs=None: the basis matrix is returned.
BasisMatrix ==
    /\ law_call.state = "called"
    /\ law_call.coeffs = None
    /\ LawReturns

\* coeffs given: the law is evaluated.
Evaluate ==
    /\ law_call.state = "called"
    /\ law_call.coeffs # None
    /\ LawReturns

NextLaw == BasisMatrix \/ Evaluate

SpecLaw == InitLaw /\ [][NextLaw]_vars
(***************************************************************************)
(* Properties                                                              *)
(***************************************************************************)
Did(block) == \E k \in 1..Len(executed) : executed[k] = block

LastBlock == executed[Len(executed)]

Finished == pc \in {"done", "raised"}

AllFinite(s) == \A k \in 1..Len(s) : IsFinite(s[k])

\* w lies in the inclusive restriction window of the call a.
InWindow(a, w) ==
    LET tenth == Div(Sub(a.cutoff_wav_nm, a.cuton_wav_nm), R(10))
    IN  /\ Geq(w, Sub(a.cuton_wav_nm, tenth))
        /\ Leq(w, Add(a.cutoff_wav_nm, tenth))

WindowRows(a) ==
    Where([k \in 1..Len(a.grid_wav_nm) |-> InWindow(a, a.grid_wav_nm[k])], 1)

RowsInWindow(a) == Len(WindowRows(a))

\* The rows of mu at or above the threshold t, ascending.
RowsAtLeast(mu, t) == Where([k \in 1..Len(mu) |-> Geq(mu[k], t)], 1)

Threshold(name) == IF name = "fourparam_nonlin" THEN R(0) ELSE Q(1, 20)

ParamCount(name) ==
    CASE name = "linear" -> 1
      [] name = "quadratic" -> 2
      [] name = "threeparam_nonlin" -> 3
      [] name = "fourparam_nonlin" -> 4

Range(s) == {s[k] : k \in 1..Len(s)}

----------------------------------------------------------------------------
\* The call with an explicit all-ones sensitivity over the same passband.
OnesCall ==
    [arg EXCEPT !.passband_sensitivity =
                    [k \in 1..Len(arg.passband_wav_nm) |-> R(1)]]

\* C1: a call without passband sensitivity completes, with the integrated
\* intensities of the call that is given an all-ones sensitivity over the
\* same passband wavelengths (whenever that call integrates to finite values).
C1_BoxcarEqualsExplicitOnes ==
    (arg.passband_sensitivity = None /\ Finished) =>
        LET ones == Integrated(OnesCall)
        IN  (ones.pc = "fit" /\ AllFinite(ones.integrated_intensities)) =>
                /\ pc = "done"
                /\ integrated_intensities = ones.integrated_intensities

----------------------------------------------------------------------------
\* C2: for every law, a call with as many coefficients as the basis matrix
\* has columns returns 1 + Phi . coeffs at every mu, Phi being the matrix
\* the same function returns for coeffs=None.
C2_EvaluationIsOnePlusPhiCoeffs ==
    LET Phi == CallLaw(law_call.law, law_call.mus, None).phi
    IN  (/\ law_call.state = "returned"
         /\ law_call.coeffs # None
         /\ Len(law_call.coeffs) = Len(Phi[1])) =>
            /\ law_ret.raised = "none"
            /\ Len(law_ret.phi) = Len(law_call.mus)
            /\ \A k \in 1..Len(law_call.mus) :
                  law_ret.phi[k] = Add(R(1), Dot(Phi[k], law_call.coeffs))

----------------------------------------------------------------------------
\* C3 as stated: once line 105 has run, the integrated intensity of
\* mu_values[0] is exactly 1.0, whatever the inputs.
C3_FirstIsExactlyOne ==
    Did("normalise") => integrated_intensities[1] = R(1)

\* C3 amended: the final division leaves exactly 1.0 at index 0 when the
\* value there before the division is finite and not zero, and NaN otherwise.
C3_FirstIsOneUnlessZero ==
    [][pc = "normalise" =>
          IF IsFinite(integrated_intensities[1]) /\ integrated_intensities[1] # R(0)
          THEN integrated_intensities'[1] = R(1)
          ELSE IsNaN(integrated_intensities'[1])]_vars

C3_Witness ==
    /\ Did("normalise")
    /\ integrated_intensities[1] = R(1)
    /\ \E k \in 1..Len(integrated_intensities) :
          IsFinite(integrated_intensities[k]) /\ integrated_intensities[k] # R(1)

----------------------------------------------------------------------------
\* A raw passband with as many sensitivities as wavelengths, none negative.
WellFormedPassband(a) ==
    /\ a.passband_sensitivity # None
    /\ Len(a.passband_sensitivity) = Len(a.passband_wav_nm)
    /\ \A k \in 1..Len(a.passband_sensitivity) :
          Geq(a.passband_sensitivity[k], R(0))

SomePositive(s) == \E k \in 1..Len(s) : Greater(s[k], R(0))

\* The passband handed to the integrator is sorted, zero at both padded ends,
\* which lie 0.01 outside the raw wavelengths, and has peak exactly 1.0.
NormalizedPassband ==
    LET n == Len(passband_wav_nm)
    IN  /\ n = Len(arg.passband_wav_nm) + 2
        /\ Len(passband_sensitivity) = n
        /\ \A k \in 1..(n - 1) : Less(passband_wav_nm[k], passband_wav_nm[k + 1])
        /\ passband_wav_nm[1] = Sub(MinSeq(arg.passband_wav_nm), Q(1, 100))
        /\ passband_wav_nm[n] = Add(MaxSeq(arg.passband_wav_nm), Q(1, 100))
        /\ passband_sensitivity[1] = R(0)
        /\ passband_sensitivity[n] = R(0)
        /\ MaxSeq(passband_sensitivity) = R(1)

\* C4 as stated: every raw passband with non-negative sensitivities is
\* normalised.
C4_EveryPassbandNormalized ==
    (Did("rescale") /\ WellFormedPassband(arg)) => NormalizedPassband

\* C4 amended: every raw passband with non-negative sensitivities, at least
\* one of them positive, is normalised.
C4_PositivePassbandNormalized ==
    (/\ Did("rescale")
     /\ WellFormedPassband(arg)
     /\ SomePositive(arg.passband_sensitivity)) => NormalizedPassband

C4_Witness ==
    /\ pc = "mask_interp"
    /\ WellFormedPassband(arg)
    /\ Greater(arg.passband_wav_nm[1], arg.passband_wav_nm[2])
    /\ MaxSeq(arg.passband_sensitivity) = R(4)

----------------------------------------------------------------------------
\* C5 as stated: with fewer than 2 grid rows inside the restriction window
\* the call fails in the resampling block.
C5_FewRowsFailAtResampling ==
    (Did("resample") /\ RowsInWindow(arg) < 2) =>
        (pc = "raised" /\ LastBlock = "resample")

\* C5 amended: with no grid row inside the window the call fails in the
\* resampling block, with the ValueError of np.interp, and returns nothing;
\* with exactly one row inside (and a column for every mu) resampling
\* succeeds and every mu column is that row's value along the whole axis.
C5_OnlyEmptyWindowFails ==
    /\ (Did("resample") /\ RowsInWindow(arg) = 0) =>
          /\ pc = "raised" /\ raised = "ValueError"
          /\ LastBlock = "resample"
          /\ DOMAIN ld_coeff_fits = {}
    /\ (/\ Did("resample")
        /\ RowsInWindow(arg) = 1
        /\ Ncols(arg.grid_intensities) >= Len(arg.grid_mu)) =>
          /\ ~(pc = "raised" /\ LastBlock = "resample")
          /\ pc = "rescale" =>
                /\ Len(grid_intensities) = nf
                /\ \A k \in 1..nf : \A c \in 1..Len(grid_mu) :
                      grid_intensities[k][c] =
                          arg.grid_intensities[WindowRows(arg)[1]][c]

C5_Witness ==
    /\ RowsInWindow(arg) = 1
    /\ pc = "done"
    /\ DOMAIN ld_coeff_fits = Range(laws)

----------------------------------------------------------------------------
AdmissibleCount(name) == Len(RowsAtLeast(arg.grid_mu, Threshold(name)))

FitsRun == Cardinality({k \in 1..Len(executed) : executed[k] = "fit"})

\* C6 as stated: no coefficient vector is stored for a law with fewer
\* admissible mu samples than parameters; the call fails instead.
C6_UnderdeterminedNeverStored ==
    \A k \in 1..Len(laws) :
        AdmissibleCount(laws[k]) < ParamCount(laws[k]) =>
            /\ laws[k] \notin DOMAIN ld_coeff_fits
            /\ pc # "done"

\* C6 amended: a law with at least one but fewer admissible mu samples than
\* parameters is fitted all the same when the integrated intensities are
\* finite: the underdetermined system goes to the least-squares solver, the
\* vector it returns is stored under the law's name, and no error is raised
\* for it.
C6_UnderdeterminedIsSolved ==
    \A k \in 1..Len(laws) :
        (/\ FitsRun >= k
         /\ AllFinite(integrated_intensities)
         /\ AdmissibleCount(laws[k]) >= 1
         /\ AdmissibleCount(laws[k]) < ParamCount(laws[k])) =>
            /\ laws[k] \in DOMAIN ld_coeff_fits
            /\ Len(ld_coeff_fits[laws[k]].A) = AdmissibleCount(laws[k])
            /\ ld_coeff_fits[laws[k]].size = ParamCount(laws[k])
            /\ ~(pc = "raised" /\ FitsRun = k)

C6_Witness ==
    /\ pc = "done"
    /\ AllFinite(integrated_intensities)
    /\ DOMAIN ld_coeff_fits = Range(laws)
    /\ \E k \in 1..Len(laws) :
          /\ AdmissibleCount(laws[k]) >= 1
          /\ AdmissibleCount(laws[k]) < ParamCount(laws[k])

----------------------------------------------------------------------------
FewerColumns(a) == Ncols(a.grid_intensities) < Len(a.grid_mu)

MoreColumns(a) == Ncols(a.grid_intensities) > Len(a.grid_mu)

ShorterSensitivity(a) ==
    /\ a.passband_sensitivity # None
    /\ Len(a.passband_sensitivity) < Len(a.passband_wav_nm)

LongerSensitivity(a) ==
    /\ a.passband_sensitivity # None
    /\ Len(a.passband_sensitivity) > Len(a.passband_wav_nm)

ShapeMismatch(a) ==
    \/ FewerColumns(a) \/ MoreColumns(a)
    \/ ShorterSensitivity(a) \/ LongerSensitivity(a)

\* The call a without the grid columns beyond len( grid_mu ) and without
\* the sensitivities beyond len( passband_wav_nm ).
Trimmed(a) ==
    [a EXCEPT !.grid_intensities =
                  [k \in 1..Len(@) |-> SubSeq(@[k], 1, Len(a.grid_mu))],
              !.passband_sensitivity = SubSeq(@, 1, Len(a.passband_wav_nm))]

\* C7 as stated: a call with inconsistent array dimensions never completes.
C7_MismatchNeverCompletes == ShapeMismatch(arg) => pc # "done"

\* C7 amended: a sensitivity sequence shorter than the wavelengths fails
\* with IndexError in the first block, and a grid with fewer columns than mu
\* values fails with IndexError in the resampling block; a longer
\* sensitivity sequence or a grid with more columns raises nothing: the call
\* goes on as the call given only the leading sensitivities and columns.
C7_OnlyShortInputsFail ==
    /\ (ShorterSensitivity(arg) /\ Did("sort_pad")) =>
          /\ pc = "raised" /\ raised = "IndexError"
          /\ executed = <<"sort_pad">>
    /\ (FewerColumns(arg) /\ Did("resample") /\ RowsInWindow(arg) > 0) =>
          /\ pc = "raised" /\ raised = "IndexError"
          /\ LastBlock = "resample"
    /\ (/\ LongerSensitivity(arg) \/ MoreColumns(arg)
        /\ ~ShorterSensitivity(arg) /\ ~FewerColumns(arg)
        /\ arg.passband_sensitivity # None
        /\ pc \in {"fit", "raised"} /\ ~Did("fit")) =>
          LET t == Integrated(Trimmed(arg))
          IN  /\ t.pc = pc
              /\ t.raised = raised
              /\ t.integrated_intensities = integrated_intensities

C7_Witness ==
    /\ pc = "done"
    /\ LongerSensitivity(arg) \/ MoreColumns(arg)
    /\ AllFinite(integrated_intensities)

----------------------------------------------------------------------------
\* The call a with 7 added to every intensity of a row outside the window.
ScaledOutside(a) ==
    [a EXCEPT !.grid_intensities =
        [k \in 1..Len(@) |->
            IF InWindow(a, a.grid_wav_nm[k]) THEN @[k]
            ELSE [c \in 1..Len(@[k]) |-> Add(@[k][c], R(7))]]]

\* The call a without the rows outside the window.
DroppedOutside(a) ==
    [a EXCEPT !.grid_wav_nm = Take(@, WindowRows(a)),
              !.grid_intensities = Take(@, WindowRows(a))]

LawIndex(name) == CHOOSE k \in 1..Len(laws) : laws[k] = name

\* The call with the arguments b reaches the law fitter with the integrated
\* intensities of the running call, or raises what the running call raised
\* before the fitter, and gives every law the running call has fitted the
\* same coefficients.
SameOutcome(b) ==
    LET t == Integrated(b)
    IN  IF Did("normalise")
        THEN /\ t.pc = "fit"
             /\ t.integrated_intensities = integrated_intensities
             /\ \A name \in DOMAIN ld_coeff_fits :
                   ld_coeff_fits[name] =
                       LawFit(LawIndex(name), t.grid_mu,
                              t.integrated_intensities).coeffs
        ELSE t.pc = "raised" /\ t.raised = raised

\* C8: the rows kept by the restriction are those with wavl <= wavelength
\* <= wavu, both ends included, and a call whose arguments differ only in
\* the intensities, or the presence, of rows outside that window has the
\* same integrated intensities and the same fitted coefficients (compared
\* when the integrator has finished and when the call has ended).
C8_OutsideRowsNeverInfluence ==
    /\ pc = "resample" =>
          grid_wav_nm = Take(arg.grid_wav_nm, WindowRows(arg))
    /\ (Finished \/ (pc = "fit" /\ ~Did("fit"))) =>
          /\ SameOutcome(ScaledOutside(arg))
          /\ SameOutcome(DroppedOutside(arg))

C8_Witness ==
    /\ pc = "done"
    /\ AllFinite(integrated_intensities)
    /\ RowsInWindow(arg) < Len(arg.grid_wav_nm)
    /\ \E k \in 1..Len(arg.grid_wav_nm) : arg.grid_wav_nm[k] = wavl
    /\ \E c \in 1..Len(integrated_intensities) : integrated_intensities[c] # R(1)

----------------------------------------------------------------------------
\* C9: every fitted law was solved on exactly the rows with mu >= 0
\* (fourparam_nonlin) or mu >= 0.05 (the other three), those rows select
\* both the basis matrix rows and the targets, and the rows of
\* fourparam_nonlin include the rows of every other law.
C9_AdmissibleRows ==
    \A name \in DOMAIN ld_coeff_fits :
        LET rows == RowsAtLeast(grid_mu, Threshold(name))
            Phi == CallLaw(name, grid_mu, None).phi
        IN  /\ fitted_rows[name] = rows
            /\ ld_coeff_fits[name].A = Take(Phi, rows)
            /\ ld_coeff_fits[name].b =
                   [k \in 1..Len(rows) |->
                       Sub(integrated_intensities[rows[k]], R(1))]
            /\ Range(fitted_rows[name]) \subseteq
                   Range(fitted_rows["fourparam_nonlin"])

C9_Witness ==
    /\ pc = "done"
    /\ \E k \in 1..Len(grid_mu) : grid_mu[k] = Q(1, 20)
    /\ Range(fitted_rows["linear"]) # Range(fitted_rows["fourparam_nonlin"])
    /\ Range(fitted_rows["linear"]) # {}

----------------------------------------------------------------------------
\* The stage of the pipeline each block of fit_law belongs to: 1 the
\* passband normalizer, 2 the grid restrictor and resampler, 3 the passband
\* integrator, 4 the law fitter.
StageOf(block) ==
    CASE block \in {"sort_pad", "rescale"} -> 1
      [] block \in {"restrict", "resample"} -> 2
      [] block \in {"mask_interp", "normfactor", "integrate", "normalise"} -> 3
      [] block \in {"fit", "return"} -> 4

\* C10 as stated: no block of an earlier stage runs after a block of a
\* later stage.
C10_StagesInStrictSequence ==
    \A j, k \in 1..Len(executed) :
        j < k => StageOf(executed[j]) <= StageOf(executed[k])

\* The blocks of fit_law in the order of the function body.
ProgramOrder ==
    <<"sort_pad", "restrict", "resample", "rescale", "mask_interp",
      "normfactor", "integrate", "normalise", "fit", "fit", "fit", "fit",
      "return">>

\* C10 amended: the sort and zero-padding of the passband finish before the
\* grid is restricted and resampled; the passband is sorted again and
\* rescaled to peak 1 after the resampling and before the integrator starts;
\* the integrator finishes before the law fitter starts.
C10_BlocksInProgramOrder ==
    /\ Len(executed) <= Len(ProgramOrder)
    /\ executed = SubSeq(ProgramOrder, 1, Len(executed))

C10_Witness == pc = "done" /\ executed = ProgramOrder
====
